---- MODULE Spec2Model ----
(***************************************************************************)
(* Timing / comparison harness of claude-bedrock-optimization.             *)
(*                                                                         *)
(* The model follows the control flow of utils/performance.py and of the   *)
(* examples that drive it, of invoke_with_timeout and of                   *)
(* demonstrate_prompt_caching, and computes what create_claude_llm builds  *)
(* its LLM with.  One outbound call is split into the step that            *)
(* issues it, the endpoint's answer, the SDK client's resend of a failed   *)
(* request, and the step of the caller that consumes the outcome, so that  *)
(* what is in flight, what was sent and what was recorded can be told      *)
(* apart.                                                                  *)
(*                                                                         *)
(* Durations are whole clock ticks.  A mean is kept as the exact fraction  *)
(* num/den that sum(times) / len(times) denotes.                           *)
(*                                                                         *)
(* The boto3 client resends a request that failed with a retryable error   *)
(* (timeout, connection error, throttling, 5xx) as often as the            *)
(* 'max_attempts' entry of Config(retries=...) says; that entry counts the *)
(* resends after the initial request.                                      *)
(*                                                                         *)
(* The agents of compare_agent_implementations and of                      *)
(* demonstrate_combined_approach run in langchain's AgentExecutor: each    *)
(* step is one invocation of the LLM followed by at most one call of a     *)
(* tool function, steps are counted against max_iterations, and at the     *)
(* limit early_stopping_method decides between a fixed answer ("force")    *)
(* and one more invocation ("generate").  The tool functions are the       *)
(* repository's and evaluate the text the model wrote.                     *)
(***************************************************************************)
EXTENDS Integers, Sequences, FiniteSets, TLC

\* ---------------------------------------------------------------- bounds
MaxRuns == 3        \* largest num_runs / runs_per_query tried
MaxDur == 2         \* largest duration of one request, in clock ticks
MaxLlms == 2        \* largest number of configurations in llms
MaxPrompts == 2     \* largest number of inputs in prompts
MaxQueries == 2     \* largest number of queries of a document benchmark
MaxPairs == 4       \* largest number of timing-wrapper calls planned by a run
MaxBusy == 6        \* the endpoint answers while the run has waited at most this long
MaxAgain == 1       \* how often compare_llms is called again with the same arguments
MaxSlack == 1       \* demonstrate_prompt_caching: ticks the endpoint takes beyond one per call
MaxOffset == 1      \* token limits are tried this far on either side of a budget
MaxOverhead == 1    \* clock ticks that the steps of the program itself take in a run

\* ------------------------------------------------------ program constants
DEFAULT_TIMEOUT == 3600
CONNECTION_TIMEOUT == 10
BUDGET_MINIMAL == 1024
BUDGET_BALANCED == 2500
BUDGET_DEEP == 5000

VARIABLES
    prog,           \* the entry point that was called
    pc,             \* position of the single thread of control
    exc,            \* the exception that ended the run ("" while none)
    client,         \* the boto3 client configuration in use
    now,            \* the clock read by time.time()
    llms,           \* compare_llms: names of the llms dict, in insertion order
    prompts,        \* compare_llms: the list of prompts
    llm_idx,        \* compare_llms: position of the outer loop (0 = not started)
    prompt_idx,     \* compare_llms: position of the inner loop, i + 1
    queries,        \* qa_prompts / queries of the document benchmarks
    runs_per_query, \* compare_multiple_queries: argument
    phase,          \* benchmark_prompt_caching: which of its three loops runs
    q_idx,          \* document benchmarks: position of the query loop, i + 1
    unstructured_results, \* compare_multiple_queries: << >> or <<result>>
    results,        \* the table / list the entry point builds
    prompt,         \* time_llm_response: the prompt text argument
    body,           \* time_direct_invoke: the request body argument
    num_runs,       \* timing wrapper: argument
    i,              \* timing wrapper: loop variable
    times,          \* timing wrapper: list of recorded durations
    usages,         \* time_direct_invoke: list of usage records
    llm_response,   \* time_llm_response: last response (0 = None)
    start_time,     \* timing wrapper: clock value taken before the call
    ret,            \* value returned by the last timing wrapper, << >> if none
    inflight,       \* outbound requests issued and not yet answered
    attempts,       \* requests sent for the current invocation
    reply,          \* << >> or <<what the last request came back with>>
    requests,       \* outbound requests sent since the run began
    log,            \* invocations and sleeps, in the order they happened
    args,           \* arguments of the function under test, where it has its own
    llm,            \* create_claude_llm: << >> or <<the LLM it built>>
    result,         \* << >> or <<the dict returned by invoke_with_timeout / time_response>>
    step,           \* demonstrate_prompt_caching: number of the call being made
    run_no,         \* compare_llms: how many times it has been called
    executor,       \* the AgentExecutor that is running, << >> while none is
    iterations,     \* AgentExecutor: steps taken by the running agent
    tool_calls,     \* calls of a tool function made by the running agent
    invoked,        \* names of the executors invoked so far, in order
    locals          \* the timings bound in the entry point's frame, by name

harnessVars == <<llms, prompts, llm_idx, prompt_idx, queries, runs_per_query,
                 phase, q_idx, unstructured_results, results>>
wrapVars == <<prompt, body, num_runs, i, times, usages, llm_response,
              start_time, ret>>
netVars == <<inflight, attempts, reply, requests, log>>
extVars == <<args, llm, result, step, run_no>>
agentVars == <<executor, iterations, tool_calls, invoked, locals>>
vars == <<prog, pc, exc, client, now, harnessVars, wrapVars, netVars, extVars,
          agentVars>>

\* ------------------------------------------------------- python built-ins
RECURSIVE Sum(_)
Sum(s) == IF s = << >> THEN 0 ELSE Head(s) + Sum(Tail(s))

Min(s) == CHOOSE m \in {s[k] : k \in DOMAIN s} : \A k \in DOMAIN s : m <= s[k]

Max(s) == CHOOSE m \in {s[k] : k \in DOMAIN s} : \A k \in DOMAIN s : m >= s[k]

\* d[k] = v on a dict d
Put(d, k, v) == [x \in (DOMAIN d) \cup {k} |-> IF x = k THEN v ELSE d[x]]

\* sum(times) // len(times)
AverageFloor(ts) == [num |-> Sum(ts) \div Len(ts), den |-> 1]

\* sum(times) / len(times) and statistics.mean(times), as an exact fraction
Average(ts) == [num |-> Sum(ts), den |-> Len(ts)]

\* ----------------------------------------------------------- the clients
create_optimized_client(timeout_seconds) ==
    [read_timeout |-> timeout_seconds,
     connect_timeout |-> CONNECTION_TIMEOUT,
     max_attempts |-> 1]

create_default_client ==
    [read_timeout |-> 60, connect_timeout |-> 10, max_attempts |-> 0]

create_custom_timeout_client(timeout_seconds) ==
    [read_timeout |-> timeout_seconds, connect_timeout |-> 10, max_attempts |-> 0]

\* boto3.client(...) without a Config: botocore's defaults, which resend a
\* retryable failure up to four times
boto3_client ==
    [read_timeout |-> 60, connect_timeout |-> 60, max_attempts |-> 4]

Clients == {create_optimized_client(DEFAULT_TIMEOUT), create_default_client}

\* the client an invocation goes through: time_response builds its own
Sender == IF pc \in {"tr_start", "tr_call"} THEN boto3_client ELSE client

\* ---------------------------------------------------------- the endpoint
Durations == 1..MaxDur
Retryable == {"timeout"}
Failures == Retryable \cup {"api_error"}

FailureReplies == [outcome : Failures, shape : {"none"}, usage : {FALSE}]

\* what one request can come back with, as far as the waiting caller can tell
Replies ==
    FailureReplies \cup
    IF pc = "tlr_call"
    THEN [outcome : {"ok"}, shape : {"text"}, usage : {TRUE}]
    ELSE IF pc = "tdi_call"
    THEN [outcome : {"ok"}, shape : {"text", "malformed"}, usage : BOOLEAN]
    ELSE IF pc = "ae_call"
    THEN [outcome : {"ok"},
          shape : {"final", "action", "unknown_tool", "unparseable"},
          usage : {TRUE}]
    ELSE IF pc = "ae_stop_call"
    THEN [outcome : {"ok"}, shape : {"final", "unparseable"}, usage : {TRUE}]
    ELSE [outcome : {"ok"}, shape : {"text", "nocontent", "notext", "malformed"},
          usage : {TRUE}]

IsCall(e) == e.kind = "call"
Calls == SelectSeq(log, IsCall)

RECURSIVE SumDur(_)
SumDur(s) == IF s = << >> THEN 0 ELSE Head(s).dur + SumDur(Tail(s))
Busy == SumDur(Calls)

\* the caller of the client sees an outcome once no resend is due
MustRetry ==
    /\ reply # << >>
    /\ reply[1].outcome \in Retryable
    /\ attempts <= Sender.max_attempts
Delivered == reply # << >> /\ ~MustRetry

EmptyDict == << >>

\* the texts of the content segments of a request body that carry a
\* cache_control marker
CachedSegments(b) ==
    IF b = << >> \/ "content" \notin DOMAIN b THEN {}
    ELSE {b.content[k].text :
            k \in {j \in 1..Len(b.content) :
                      /\ "cache_control" \in DOMAIN b.content[j]
                      /\ b.content[j].cache_control # EmptyDict}}

CallEntry(cfg, input, run) ==
    [kind |-> "call", cfg |-> cfg, input |-> input, run |-> run,
     outcome |-> "pending", dur |-> 0, via |-> Sender,
     cached |-> CachedSegments(body)]
SleepEntry(secs) ==
    [kind |-> "sleep", cfg |-> 0, input |-> 0, run |-> 0,
     outcome |-> "slept", dur |-> secs, via |-> << >>, cached |-> {}]

\* issue one invocation: the first request goes out
Send(entry) ==
    /\ inflight' = inflight + 1
    /\ requests' = requests + 1
    /\ attempts' = 1
    /\ reply' = << >>
    /\ log' = Append(log, entry)

\* the call has returned or raised in the caller
Consume ==
    /\ reply' = << >>
    /\ UNCHANGED <<inflight, attempts, requests, log>>

\* time.sleep(secs)
Sleep(secs) ==
    /\ now' = now + secs
    /\ log' = Append(log, SleepEntry(secs))
    /\ UNCHANGED <<inflight, attempts, reply, requests>>

EndpointRespond ==
    /\ inflight > 0
    /\ reply = << >>
    /\ \E r \in Replies, d \in Durations :
        /\ IF prog = "demonstrate_prompt_caching"
           THEN Busy + d <= Len(Calls) + MaxSlack
           ELSE IF prog \in {"compare_agent_implementations",
                             "demonstrate_combined_approach"}
           THEN \/ Busy + d + (IF r.outcome \in Retryable
                                     /\ attempts <= Sender.max_attempts
                                 THEN 1 ELSE 0) <= Len(Calls) + MaxSlack
                \/ d = 1 /\ r.outcome \notin Retryable
           ELSE Busy + d <= MaxBusy
        /\ reply' = <<r>>
        /\ now' = now + d
        /\ log' = [log EXCEPT ![Len(log)].outcome = r.outcome,
                              ![Len(log)].dur = @ + d]
    /\ inflight' = inflight - 1
    /\ UNCHANGED <<attempts, requests>>
    /\ UNCHANGED <<prog, pc, exc, client, harnessVars, wrapVars>>
    /\ UNCHANGED extVars
    /\ UNCHANGED agentVars

ClientRetry ==
    /\ MustRetry
    /\ inflight' = inflight + 1
    /\ requests' = requests + 1
    /\ attempts' = attempts + 1
    /\ reply' = << >>
    /\ UNCHANGED log
    /\ UNCHANGED <<prog, pc, exc, client, now, harnessVars, wrapVars>>
    /\ UNCHANGED extVars
    /\ UNCHANGED agentVars

\* ---------------------------------------------------- the timing wrappers
\* where a timing wrapper returns to
AfterWrapper ==
    IF prog = "compare_llms" THEN "cl_store"
    ELSE IF prog = "benchmark_prompt_caching" THEN "bpc_store"
    ELSE IF prog = "compare_multiple_queries"
    THEN (IF pc = "tuq_loop" THEN "cmq_sleep" ELSE "cmq_store")
    ELSE "done"

\* the frame of a timing wrapper on entry
EnterWrapper(p, b, n) ==
    /\ prompt' = p
    /\ body' = b
    /\ num_runs' = n
    /\ i' = 0
    /\ times' = << >>
    /\ usages' = << >>
    /\ llm_response' = 0
    /\ start_time' = 0
    /\ ret' = << >>

\* which configuration the current call belongs to
CurrentCfg ==
    IF prog = "compare_llms" THEN llm_idx
    ELSE IF prog = "benchmark_prompt_caching" THEN phase
    ELSE IF pc \in {"tsq_loop", "tsq_send"} THEN 2 ELSE 1
CurrentInput == IF prog = "compare_llms" THEN prompt_idx ELSE q_idx

\* ------------------------------------------------------ time_llm_response
\* start_time taken once, before the loop
time_llm_response_invoke_start_once ==
    /\ pc = "tlr_loop"
    /\ i < num_runs
    /\ llm_response' = 0
    /\ start_time' = IF i = 0 THEN now ELSE start_time
    /\ Send(CallEntry(CurrentCfg, CurrentInput, i + 1))
    /\ pc' = "tlr_call"
    /\ UNCHANGED <<prompt, body, num_runs, i, times, usages, ret>>
    /\ UNCHANGED <<prog, exc, client, now, harnessVars>>
    /\ UNCHANGED extVars
    /\ UNCHANGED agentVars

\* the call is issued without waiting for its outcome
time_llm_response_invoke_async ==
    /\ pc = "tlr_loop"
    /\ i < num_runs
    /\ llm_response' = 0
    /\ start_time' = now
    /\ Send(CallEntry(CurrentCfg, CurrentInput, i + 1))
    /\ i' = i + 1
    /\ pc' = "tlr_loop"
    /\ UNCHANGED <<prompt, body, num_runs, times, usages, ret>>
    /\ UNCHANGED <<prog, exc, client, now, harnessVars>>
    /\ UNCHANGED extVars
    /\ UNCHANGED agentVars

time_llm_response_invoke ==
    /\ pc = "tlr_loop"
    /\ i < num_runs
    /\ llm_response' = 0
    /\ start_time' = now
    /\ Send(CallEntry(CurrentCfg, CurrentInput, i + 1))
    /\ pc' = "tlr_call"
    /\ UNCHANGED <<prompt, body, num_runs, i, times, usages, ret>>
    /\ UNCHANGED <<prog, exc, client, now, harnessVars>>
    /\ UNCHANGED extVars
    /\ UNCHANGED agentVars

time_llm_response_record ==
    /\ pc = "tlr_call"
    /\ Delivered
    /\ reply[1].outcome = "ok"
    /\ llm_response' = Len(log)
    /\ times' = Append(times, now - start_time)
    /\ i' = i + 1
    /\ pc' = "tlr_loop"
    /\ Consume
    /\ UNCHANGED <<prompt, body, num_runs, usages, start_time, ret>>
    /\ UNCHANGED <<prog, exc, client, now, harnessVars>>
    /\ UNCHANGED extVars
    /\ UNCHANGED agentVars

time_llm_response_raise ==
    /\ pc = "tlr_call"
    /\ Delivered
    /\ reply[1].outcome # "ok"
    /\ exc' = reply[1].outcome
    /\ pc' = "raised"
    /\ Consume
    /\ UNCHANGED <<prog, client, now, harnessVars, wrapVars>>
    /\ UNCHANGED extVars
    /\ UNCHANGED agentVars

time_llm_response_return ==
    /\ pc = "tlr_loop"
    /\ i >= num_runs
    /\ IF Len(times) = 0
       THEN /\ exc' = "ZeroDivisionError"
            /\ pc' = "raised"
            /\ ret' = ret
       ELSE /\ ret' = <<[prompt |-> prompt,
                         times |-> times,
                         average_time |-> Average(times),
                         min_time |-> Min(times),
                         max_time |-> Max(times),
                         response |-> llm_response]>>
            /\ pc' = AfterWrapper
            /\ exc' = exc
    /\ UNCHANGED <<prompt, body, num_runs, i, times, usages, llm_response, start_time>>
    /\ UNCHANGED <<prog, client, now, harnessVars, netVars>>
    /\ UNCHANGED extVars
    /\ UNCHANGED agentVars

\* ----------------------------------------------------- time_direct_invoke
time_direct_invoke_invoke ==
    /\ pc = "tdi_loop"
    /\ i < num_runs
    /\ start_time' = now
    /\ Send(CallEntry(CurrentCfg, CurrentInput, i + 1))
    /\ pc' = "tdi_call"
    /\ UNCHANGED <<prompt, body, num_runs, i, times, usages, llm_response, ret>>
    /\ UNCHANGED <<prog, exc, client, now, harnessVars>>
    /\ UNCHANGED extVars
    /\ UNCHANGED agentVars

\* lines 105-121: the duration is recorded, then the body is parsed
time_direct_invoke_record ==
    /\ pc = "tdi_call"
    /\ Delivered
    /\ reply[1].outcome = "ok"
    /\ times' = Append(times, now - start_time)
    /\ IF reply[1].shape = "malformed"
       THEN /\ exc' = "JSONDecodeError"
            /\ pc' = "raised"
            /\ UNCHANGED <<usages, i>>
       ELSE /\ usages' = IF reply[1].usage
                         THEN Append(usages, [call |-> Len(Calls)])
                         ELSE usages
            /\ i' = i + 1
            /\ pc' = "tdi_loop"
            /\ exc' = exc
    /\ Consume
    /\ UNCHANGED <<prompt, body, num_runs, llm_response, start_time, ret>>
    /\ UNCHANGED <<prog, client, now, harnessVars>>
    /\ UNCHANGED extVars
    /\ UNCHANGED agentVars

time_direct_invoke_raise ==
    /\ pc = "tdi_call"
    /\ Delivered
    /\ reply[1].outcome # "ok"
    /\ exc' = reply[1].outcome
    /\ pc' = "raised"
    /\ Consume
    /\ UNCHANGED <<prog, client, now, harnessVars, wrapVars>>
    /\ UNCHANGED extVars
    /\ UNCHANGED agentVars

time_direct_invoke_return ==
    /\ pc = "tdi_loop"
    /\ i >= num_runs
    /\ IF Len(times) = 0
       THEN /\ exc' = "ZeroDivisionError"
            /\ pc' = "raised"
            /\ ret' = ret
       ELSE /\ ret' = <<[times |-> times,
                         average_time |-> Average(times),
                         min_time |-> Min(times),
                         max_time |-> Max(times),
                         usages |-> usages]>>
            /\ pc' = AfterWrapper
            /\ exc' = exc
    /\ UNCHANGED <<prompt, body, num_runs, i, times, usages, llm_response, start_time>>
    /\ UNCHANGED <<prog, client, now, harnessVars, netVars>>
    /\ UNCHANGED extVars
    /\ UNCHANGED agentVars

\* ------------------- time_unstructured_query and time_structured_query
\* w is "tuq" for time_unstructured_query and "tsq" for time_structured_query;
\* the two functions differ in the message body they send only.
query_sleep(w) ==
    /\ pc = w \o "_loop"
    /\ i < num_runs
    /\ i > 0
    /\ Sleep(5)
    /\ pc' = w \o "_send"
    /\ UNCHANGED <<prog, exc, client, harnessVars, wrapVars>>
    /\ UNCHANGED extVars
    /\ UNCHANGED agentVars

query_invoke(w) ==
    /\ \/ pc = w \o "_loop" /\ i < num_runs /\ i = 0
       \/ pc = w \o "_send"
    /\ start_time' = now
    /\ Send(CallEntry(CurrentCfg, CurrentInput, i + 1))
    /\ pc' = w \o "_call"
    /\ UNCHANGED <<prompt, body, num_runs, i, times, usages, llm_response, ret>>
    /\ UNCHANGED <<prog, exc, client, now, harnessVars>>
    /\ UNCHANGED extVars
    /\ UNCHANGED agentVars

\* the duration is recorded; the first response is parsed and printed
query_record(w) ==
    /\ pc = w \o "_call"
    /\ Delivered
    /\ reply[1].outcome = "ok"
    /\ times' = Append(times, now - start_time)
    /\ IF i = 0 /\ reply[1].shape = "malformed"
       THEN exc' = "JSONDecodeError" /\ pc' = "raised" /\ i' = i
       ELSE IF i = 0 /\ reply[1].shape = "notext"
       THEN exc' = "KeyError" /\ pc' = "raised" /\ i' = i
       ELSE exc' = exc /\ pc' = w \o "_loop" /\ i' = i + 1
    /\ Consume
    /\ UNCHANGED <<prompt, body, num_runs, usages, llm_response, start_time, ret>>
    /\ UNCHANGED <<prog, client, now, harnessVars>>
    /\ UNCHANGED extVars
    /\ UNCHANGED agentVars

query_raise(w) ==
    /\ pc = w \o "_call"
    /\ Delivered
    /\ reply[1].outcome # "ok"
    /\ exc' = reply[1].outcome
    /\ pc' = "raised"
    /\ Consume
    /\ UNCHANGED <<prog, client, now, harnessVars, wrapVars>>
    /\ UNCHANGED extVars
    /\ UNCHANGED agentVars

query_return(w) ==
    /\ pc = w \o "_loop"
    /\ i >= num_runs
    /\ IF Len(times) = 0
       THEN /\ exc' = "StatisticsError"
            /\ pc' = "raised"
            /\ ret' = ret
       ELSE /\ ret' = <<[times |-> times,
                         average |-> Average(times),
                         min |-> Min(times),
                         max |-> Max(times)]>>
            /\ pc' = AfterWrapper
            /\ exc' = exc
    /\ UNCHANGED <<prompt, body, num_runs, i, times, usages, llm_response, start_time>>
    /\ UNCHANGED <<prog, client, now, harnessVars, netVars>>
    /\ UNCHANGED extVars
    /\ UNCHANGED agentVars

time_unstructured_query_sleep == query_sleep("tuq")
time_unstructured_query_invoke == query_invoke("tuq")
time_unstructured_query_record == query_record("tuq")
time_unstructured_query_raise == query_raise("tuq")
time_unstructured_query_return == query_return("tuq")
time_structured_query_sleep == query_sleep("tsq")
time_structured_query_invoke == query_invoke("tsq")
time_structured_query_record == query_record("tsq")
time_structured_query_raise == query_raise("tsq")
time_structured_query_return == query_return("tsq")

\* ------------------------------------------------------------ compare_llms
NoKey == "<absent>"
PromptValues ==
    { [is_str |-> TRUE, name |-> NoKey, text |-> "a"],
      [is_str |-> FALSE, name |-> "Prompt 2", text |-> "b"],
      [is_str |-> FALSE, name |-> "q", text |-> NoKey],
      [is_str |-> FALSE, name |-> NoKey, text |-> "c"] }

PromptLabel(k) == "Prompt " \o ToString(k)

\* line 162 with the label taken from i instead of i + 1
prompt_name_from_zero(k, p) ==
    IF p.is_str THEN PromptLabel(k - 1)
    ELSE IF p.name # NoKey THEN p.name ELSE PromptLabel(k - 1)

\* line 162, k = i + 1
prompt_name(k, p) ==
    IF p.is_str THEN PromptLabel(k)
    ELSE IF p.name # NoKey THEN p.name ELSE PromptLabel(k)

\* line 163
prompt_text(p) ==
    IF p.is_str THEN p.text
    ELSE IF p.text # NoKey THEN p.text ELSE ""

LlmNames == <<"A", "B", "C", "D">>

compare_llms_next_llm ==
    /\ pc = "cl_llm"
    /\ llm_idx < Len(llms)
    /\ llm_idx' = llm_idx + 1
    /\ results' = Put(results, llms[llm_idx + 1], << >>)
    /\ prompt_idx' = 0
    /\ pc' = "cl_prompt"
    /\ UNCHANGED <<llms, prompts, queries, runs_per_query, phase, q_idx,
                   unstructured_results>>
    /\ UNCHANGED <<prog, exc, client, now, wrapVars, netVars>>
    /\ UNCHANGED extVars
    /\ UNCHANGED agentVars

\* time_llm_response called with num_runs=2
compare_llms_time_repeat ==
    /\ pc = "cl_prompt"
    /\ prompt_idx < Len(prompts)
    /\ prompt_idx' = prompt_idx + 1
    /\ EnterWrapper(prompt_text(prompts[prompt_idx + 1]), << >>, 2)
    /\ pc' = "tlr_loop"
    /\ UNCHANGED <<llms, prompts, llm_idx, queries, runs_per_query, phase, q_idx,
                   unstructured_results, results>>
    /\ UNCHANGED <<prog, exc, client, now, netVars>>
    /\ UNCHANGED extVars
    /\ UNCHANGED agentVars

\* lines 161-172: time_llm_response is called without num_runs
compare_llms_time ==
    /\ pc = "cl_prompt"
    /\ prompt_idx < Len(prompts)
    /\ prompt_idx' = prompt_idx + 1
    /\ EnterWrapper(prompt_text(prompts[prompt_idx + 1]), << >>, 1)
    /\ pc' = "tlr_loop"
    /\ UNCHANGED <<llms, prompts, llm_idx, queries, runs_per_query, phase, q_idx,
                   unstructured_results, results>>
    /\ UNCHANGED <<prog, exc, client, now, netVars>>
    /\ UNCHANGED extVars
    /\ UNCHANGED agentVars

compare_llms_store ==
    /\ pc = "cl_store"
    /\ results' = [results EXCEPT ![llms[llm_idx]] =
                     Put(@, prompt_name(prompt_idx, prompts[prompt_idx]), ret[1])]
    /\ pc' = "cl_prompt"
    /\ UNCHANGED <<llms, prompts, llm_idx, prompt_idx, queries, runs_per_query,
                   phase, q_idx, unstructured_results>>
    /\ UNCHANGED <<prog, exc, client, now, wrapVars, netVars>>
    /\ UNCHANGED extVars
    /\ UNCHANGED agentVars

compare_llms_end_prompts ==
    /\ pc = "cl_prompt"
    /\ prompt_idx >= Len(prompts)
    /\ pc' = "cl_llm"
    /\ UNCHANGED <<prog, exc, client, now, harnessVars, wrapVars, netVars>>
    /\ UNCHANGED extVars
    /\ UNCHANGED agentVars

compare_llms_return ==
    /\ pc = "cl_llm"
    /\ llm_idx >= Len(llms)
    /\ pc' = "done"
    /\ UNCHANGED <<prog, exc, client, now, harnessVars, wrapVars, netVars>>
    /\ UNCHANGED extVars
    /\ UNCHANGED agentVars

\* compare_llms is called again and goes on filling the table it returned
compare_llms_again_keep ==
    /\ prog = "compare_llms"
    /\ pc = "done"
    /\ run_no <= MaxAgain
    /\ run_no' = run_no + 1
    /\ results' = results
    /\ llm_idx' = 0
    /\ prompt_idx' = 0
    /\ EnterWrapper("", << >>, 0)
    /\ pc' = "cl_llm"
    /\ now' = 0
    /\ log' = << >>
    /\ requests' = 0
    /\ UNCHANGED <<inflight, attempts, reply>>
    /\ UNCHANGED <<llms, prompts, queries, runs_per_query, phase, q_idx,
                   unstructured_results>>
    /\ UNCHANGED <<prog, exc, client, args, llm, result, step>>
    /\ UNCHANGED agentVars

\* compare_llms is called again with the same llms and prompts: line 153
\* starts a new table and nothing is left of the frame of the call before;
\* the clock and the history of the endpoint are kept per call
compare_llms_again ==
    /\ prog = "compare_llms"
    /\ pc = "done"
    /\ run_no <= MaxAgain
    /\ run_no' = run_no + 1
    /\ results' = << >>
    /\ llm_idx' = 0
    /\ prompt_idx' = 0
    /\ EnterWrapper("", << >>, 0)
    /\ pc' = "cl_llm"
    /\ now' = 0
    /\ log' = << >>
    /\ requests' = 0
    /\ UNCHANGED <<inflight, attempts, reply>>
    /\ UNCHANGED <<llms, prompts, queries, runs_per_query, phase, q_idx,
                   unstructured_results>>
    /\ UNCHANGED <<prog, exc, client, args, llm, result, step>>
    /\ UNCHANGED agentVars

\* ------------------------------------------------ benchmark_prompt_caching
\* lines 112-134
create_body(query, use_caching) ==
    [anthropic_version |-> "bedrock-2023-05-31",
     max_tokens |-> 1024,
     content |-> << [type |-> "text",
                     text |-> "document",
                     cache_control |-> IF use_caching
                                       THEN [type |-> "ephemeral"]
                                       ELSE EmptyDict],
                    [type |-> "text", text |-> query] >>]

Caching == <<"No", "First (Write)", "Second (Read)">>
QueryTexts == <<"q1", "q2", "q3", "q4">>

\* the three loops over qa_prompts, one after the other
benchmark_prompt_caching_time ==
    /\ pc = "bpc_loop"
    /\ q_idx < Len(queries)
    /\ q_idx' = q_idx + 1
    /\ EnterWrapper("", create_body(queries[q_idx + 1], phase > 1), 1)
    /\ pc' = "tdi_loop"
    /\ UNCHANGED <<llms, prompts, llm_idx, prompt_idx, queries, runs_per_query,
                   phase, unstructured_results, results>>
    /\ UNCHANGED <<prog, exc, client, now, netVars>>
    /\ UNCHANGED extVars
    /\ UNCHANGED agentVars

benchmark_prompt_caching_store ==
    /\ pc = "bpc_store"
    /\ results' = Append(results,
                         [Query |-> q_idx,
                          Caching |-> Caching[phase],
                          ResponseTime |-> ret[1].average_time,
                          Usage |-> IF ret[1].usages # << >>
                                    THEN <<ret[1].usages[1]>>
                                    ELSE EmptyDict])
    /\ pc' = "bpc_loop"
    /\ UNCHANGED <<llms, prompts, llm_idx, prompt_idx, queries, runs_per_query,
                   phase, q_idx, unstructured_results>>
    /\ UNCHANGED <<prog, exc, client, now, wrapVars, netVars>>
    /\ UNCHANGED extVars
    /\ UNCHANGED agentVars

benchmark_prompt_caching_next_loop ==
    /\ pc = "bpc_loop"
    /\ q_idx >= Len(queries)
    /\ IF phase < 3
       THEN phase' = phase + 1 /\ q_idx' = 0 /\ pc' = pc
       ELSE phase' = phase /\ q_idx' = q_idx /\ pc' = "done"
    /\ UNCHANGED <<llms, prompts, llm_idx, prompt_idx, queries, runs_per_query,
                   unstructured_results, results>>
    /\ UNCHANGED <<prog, exc, client, now, wrapVars, netVars>>
    /\ UNCHANGED extVars
    /\ UNCHANGED agentVars

\* ------------------------------------------------ compare_multiple_queries
QueryLabel(k) == "query_" \o ToString(k)

compare_multiple_queries_unstructured ==
    /\ pc = "cmq_loop"
    /\ q_idx < Len(queries)
    /\ q_idx' = q_idx + 1
    /\ EnterWrapper("", << >>, runs_per_query)
    /\ pc' = "tuq_loop"
    /\ UNCHANGED <<llms, prompts, llm_idx, prompt_idx, queries, runs_per_query,
                   phase, unstructured_results, results>>
    /\ UNCHANGED <<prog, exc, client, now, netVars>>
    /\ UNCHANGED extVars
    /\ UNCHANGED agentVars

\* lines 201-209
compare_multiple_queries_structured ==
    /\ pc = "cmq_sleep"
    /\ unstructured_results' = ret
    /\ Sleep(10)
    /\ EnterWrapper("", << >>, runs_per_query)
    /\ pc' = "tsq_loop"
    /\ UNCHANGED <<llms, prompts, llm_idx, prompt_idx, queries, runs_per_query,
                   phase, q_idx, results>>
    /\ UNCHANGED <<prog, exc, client>>
    /\ UNCHANGED extVars
    /\ UNCHANGED agentVars

\* lines 211-230 without the test of line 227: it sleeps after every query
compare_multiple_queries_store_always_sleep ==
    /\ pc = "cmq_store"
    /\ results' = [unstructured |-> Put(results.unstructured, QueryLabel(q_idx),
                                        unstructured_results[1]),
                   structured |-> Put(results.structured, QueryLabel(q_idx), ret[1])]
    /\ Sleep(15)
    /\ pc' = "cmq_loop"
    /\ UNCHANGED <<llms, prompts, llm_idx, prompt_idx, queries, runs_per_query,
                   phase, q_idx, unstructured_results>>
    /\ UNCHANGED <<prog, exc, client, wrapVars>>
    /\ UNCHANGED extVars
    /\ UNCHANGED agentVars

\* lines 211-230
compare_multiple_queries_store ==
    /\ pc = "cmq_store"
    /\ results' = [unstructured |-> Put(results.unstructured, QueryLabel(q_idx),
                                        unstructured_results[1]),
                   structured |-> Put(results.structured, QueryLabel(q_idx), ret[1])]
    /\ IF q_idx - 1 < Len(queries) - 1
       THEN Sleep(15)
       ELSE UNCHANGED <<now, netVars>>
    /\ pc' = "cmq_loop"
    /\ UNCHANGED <<llms, prompts, llm_idx, prompt_idx, queries, runs_per_query,
                   phase, q_idx, unstructured_results>>
    /\ UNCHANGED <<prog, exc, client, wrapVars>>
    /\ UNCHANGED extVars
    /\ UNCHANGED agentVars

compare_multiple_queries_return ==
    /\ pc = "cmq_loop"
    /\ q_idx >= Len(queries)
    /\ pc' = "done"
    /\ UNCHANGED <<prog, exc, client, now, harnessVars, wrapVars, netVars>>
    /\ UNCHANGED extVars
    /\ UNCHANGED agentVars

\* --------------------------------------------------------- create_claude_llm
\* Python's None, and a value that is not None
None == << >>
Some(x) == <<x>>

\* lines 76-117 with `max_tokens < thinking_budget` in both comparisons
create_claude_llm_strict(thinking_budget, temperature, max_tokens, enable_caching) ==
    LET thinking == thinking_budget # None
        adjusted == thinking /\ max_tokens < thinking_budget[1]
        max_tokens_1 == IF adjusted THEN thinking_budget[1] + 1024 ELSE max_tokens
        max_tokens_2 == IF thinking /\ max_tokens_1 < thinking_budget[1]
                        THEN thinking_budget[1] + 1024 ELSE max_tokens_1
        fields_1 == IF thinking
                    THEN Put(EmptyDict, "thinking",
                             [type |-> "enabled", budget_tokens |-> thinking_budget[1]])
                    ELSE EmptyDict
        fields_2 == IF enable_caching
                    THEN Put(fields_1, "prompt_caching", [enabled |-> TRUE])
                    ELSE fields_1
    IN [temperature |-> IF thinking THEN 1 ELSE temperature,
        max_tokens |-> max_tokens_2,
        additional_model_request_fields |-> fields_2,
        printed |-> (IF adjusted THEN <<"Warning">> ELSE << >>)
                    \o (IF thinking THEN <<"Note">> ELSE << >>)]

\* lines 76-117 without the assignment of line 84: the caller's temperature
\* is kept when thinking is enabled
create_claude_llm_keep_temperature(thinking_budget, temperature, max_tokens, enable_caching) ==
    LET thinking == thinking_budget # None
        adjusted == thinking /\ max_tokens <= thinking_budget[1]
        max_tokens_1 == IF adjusted THEN thinking_budget[1] + 1024 ELSE max_tokens
        fields_1 == IF thinking
                    THEN Put(EmptyDict, "thinking",
                             [type |-> "enabled", budget_tokens |-> thinking_budget[1]])
                    ELSE EmptyDict
        fields_2 == IF enable_caching
                    THEN Put(fields_1, "prompt_caching", [enabled |-> TRUE])
                    ELSE fields_1
    IN [temperature |-> temperature,
        max_tokens |-> max_tokens_1,
        additional_model_request_fields |-> fields_2,
        printed |-> (IF adjusted THEN <<"Warning">> ELSE << >>)
                    \o (IF thinking THEN <<"Note">> ELSE << >>)]

\* lines 76-117 with prompt caching added under `elif enable_caching`
create_claude_llm_elif(thinking_budget, temperature, max_tokens, enable_caching) ==
    LET thinking == thinking_budget # None
        adjusted == thinking /\ max_tokens <= thinking_budget[1]
        max_tokens_1 == IF adjusted THEN thinking_budget[1] + 1024 ELSE max_tokens
        fields == IF thinking
                  THEN Put(EmptyDict, "thinking",
                           [type |-> "enabled", budget_tokens |-> thinking_budget[1]])
                  ELSE IF enable_caching
                  THEN Put(EmptyDict, "prompt_caching", [enabled |-> TRUE])
                  ELSE EmptyDict
    IN [temperature |-> IF thinking THEN 1 ELSE temperature,
        max_tokens |-> max_tokens_1,
        additional_model_request_fields |-> fields,
        printed |-> (IF adjusted THEN <<"Warning">> ELSE << >>)
                    \o (IF thinking THEN <<"Note">> ELSE << >>)]

\* lines 76-117: what ChatBedrockConverse is constructed with, and what is
\* printed on the way
create_claude_llm(thinking_budget, temperature, max_tokens, enable_caching) ==
    LET thinking == thinking_budget # None
        \* lines 77-80
        adjusted == thinking /\ max_tokens <= thinking_budget[1]
        max_tokens_1 == IF adjusted THEN thinking_budget[1] + 1024 ELSE max_tokens
        \* lines 88-90
        max_tokens_2 == IF thinking /\ max_tokens_1 <= thinking_budget[1]
                        THEN thinking_budget[1] + 1024 ELSE max_tokens_1
        \* lines 93-100
        fields_1 == IF thinking
                    THEN Put(EmptyDict, "thinking",
                             [type |-> "enabled", budget_tokens |-> thinking_budget[1]])
                    ELSE EmptyDict
        \* lines 103-106
        fields_2 == IF enable_caching
                    THEN Put(fields_1, "prompt_caching", [enabled |-> TRUE])
                    ELSE fields_1
    IN [temperature |-> IF thinking THEN 1 ELSE temperature,
        max_tokens |-> max_tokens_2,
        additional_model_request_fields |-> fields_2,
        printed |-> (IF adjusted THEN <<"Warning">> ELSE << >>)
                    \o (IF thinking THEN <<"Note">> ELSE << >>)]

\* the arguments a call of create_claude_llm is made with
Arguments(thinking_budget, temperature, max_tokens, enable_caching) ==
    [thinking_budget |-> thinking_budget, temperature |-> temperature,
     max_tokens |-> max_tokens, enable_caching |-> enable_caching]

\* the presets: each one is a call of create_claude_llm with these arguments
get_standard_llm == Arguments(None, 0, 1024, FALSE)
get_fast_thinking_llm ==
    Arguments(Some(BUDGET_MINIMAL), 0, BUDGET_MINIMAL + 1024, FALSE)
get_balanced_thinking_llm ==
    Arguments(Some(BUDGET_BALANCED), 0, BUDGET_BALANCED + 1024, FALSE)
get_deep_thinking_llm ==
    Arguments(Some(BUDGET_DEEP), 0, BUDGET_DEEP + 1024, FALSE)
get_cached_llm == Arguments(None, 0, 1024, TRUE)
get_optimal_llm == Arguments(Some(BUDGET_BALANCED), 0, 1024, TRUE)
Presets ==
    {get_standard_llm, get_fast_thinking_llm, get_balanced_thinking_llm,
     get_deep_thinking_llm, get_cached_llm, get_optimal_llm}

\* the budgets and token limits a caller may pass: the configured budgets,
\* zero and a negative one, and token limits around each of them
BudgetValues == {-1, 0, BUDGET_MINIMAL, BUDGET_BALANCED, BUDGET_DEEP}
MaxTokensValues ==
    {1024} \cup {b + o : b \in BudgetValues, o \in (-MaxOffset)..MaxOffset}
Temperatures == {0, 1, 2}
ArgumentValues ==
    Presets \cup
    [thinking_budget : {None} \cup {Some(b) : b \in BudgetValues},
     temperature : Temperatures,
     max_tokens : MaxTokensValues,
     enable_caching : BOOLEAN]

create_claude_llm_build ==
    /\ pc = "ccl_start"
    /\ llm' = <<create_claude_llm(args.thinking_budget, args.temperature,
                                  args.max_tokens, args.enable_caching)>>
    /\ pc' = "done"
    /\ UNCHANGED <<prog, exc, client, now, harnessVars, wrapVars, netVars>>
    /\ UNCHANGED <<args, result, step, run_no>>
    /\ UNCHANGED agentVars

\* ------------------------------------------------------ invoke_with_timeout
\* how long building a client, serializing a request or parsing a response
\* body may take: whatever is left of the MaxOverhead ticks that the
\* program's own steps take in a run (the clock has advanced by `now`, the
\* endpoint and the sleeps account for SumDur(log) of it)
Overheads == 0..(MaxOverhead - (now - SumDur(log)))

\* the body of lines 60-74 without the floor of line 59
invoke_with_timeout_body_no_floor(thinking_budget) ==
    [anthropic_version |-> "bedrock-2023-05-31",
     max_tokens |-> thinking_budget + 1024,
     thinking |-> [type |-> "enabled", budget_tokens |-> thinking_budget]]

\* 02_timeout_config.py lines 59-74
invoke_with_timeout_body(thinking_budget) ==
    LET budget == Max(<<1024, thinking_budget>>)
    IN [anthropic_version |-> "bedrock-2023-05-31",
        max_tokens |-> budget + 1024,
        thinking |-> [type |-> "enabled", budget_tokens |-> budget]]

\* lines 113-147: the clients demonstrate_timeout_config calls it with, and
\* budgets below, at and above the floor of 1024
demonstrate_timeout_config_clients ==
    << create_default_client, create_custom_timeout_client(120),
       create_optimized_client(DEFAULT_TIMEOUT) >>
TimeoutClients ==
    {demonstrate_timeout_config_clients[k] :
        k \in DOMAIN demonstrate_timeout_config_clients}
TimeoutBudgets == {-1, 0, 1023, 1024, 3000, 8000}

\* lines 90-97
response_text(shape) ==
    IF shape = "text" THEN "text"
    ELSE IF shape = "notext" THEN "Response content found but no text field"
    ELSE "No content in response"

\* lines 59-84: the body is built, the clock is read, the body is serialized
\* and the call is made
invoke_with_timeout_invoke ==
    /\ pc = "iwt_start"
    /\ body' = invoke_with_timeout_body(args.thinking_budget)
    /\ start_time' = now
    /\ \E h \in Overheads : now' = now + h
    /\ Send(CallEntry(0, 0, 1))
    /\ pc' = "iwt_call"
    /\ UNCHANGED <<prog, exc, client, harnessVars, extVars>>
    /\ UNCHANGED <<prompt, num_runs, i, times, usages, llm_response, ret>>
    /\ UNCHANGED agentVars

\* lines 86-103: the response body is parsed, then the clock is read
invoke_with_timeout_return ==
    /\ pc = "iwt_call"
    /\ Delivered
    /\ reply[1].outcome = "ok"
    /\ reply[1].shape # "malformed"
    /\ \E h \in Overheads :
        /\ now' = now + h
        /\ result' = <<[success |-> TRUE,
                        time |-> now + h - start_time,
                        response |-> response_text(reply[1].shape)]>>
    /\ pc' = "done"
    /\ Consume
    /\ UNCHANGED <<prog, exc, client, harnessVars, wrapVars>>
    /\ UNCHANGED <<args, llm, step, run_no>>
    /\ UNCHANGED agentVars

\* lines 104-110 with `except ClientError`: a timeout is not caught
invoke_with_timeout_except_narrow ==
    /\ pc = "iwt_call"
    /\ Delivered
    /\ reply[1].outcome # "ok" \/ reply[1].shape = "malformed"
    /\ IF reply[1].outcome = "api_error"
       THEN /\ result' = <<[success |-> FALSE,
                            time |-> now - start_time,
                            error |-> reply[1].outcome]>>
            /\ pc' = "done"
            /\ exc' = exc
       ELSE /\ result' = result
            /\ pc' = "raised"
            /\ exc' = IF reply[1].outcome = "ok" THEN "JSONDecodeError"
                      ELSE reply[1].outcome
    /\ Consume
    /\ UNCHANGED <<prog, client, now, harnessVars, wrapVars>>
    /\ UNCHANGED <<args, llm, step, run_no>>
    /\ UNCHANGED agentVars

\* lines 104-110: any exception of the call or of the parsing is caught
invoke_with_timeout_except ==
    /\ pc = "iwt_call"
    /\ Delivered
    /\ reply[1].outcome # "ok" \/ reply[1].shape = "malformed"
    /\ \E h \in (IF reply[1].outcome = "ok" THEN Overheads ELSE {0}) :
        /\ now' = now + h
        /\ result' = <<[success |-> FALSE,
                        time |-> now + h - start_time,
                        error |-> IF reply[1].outcome = "ok" THEN "JSONDecodeError"
                                  ELSE reply[1].outcome]>>
    /\ pc' = "done"
    /\ Consume
    /\ UNCHANGED <<prog, exc, client, harnessVars, wrapVars>>
    /\ UNCHANGED <<args, llm, step, run_no>>
    /\ UNCHANGED agentVars

\* ------------------------------------------------ demonstrate_prompt_caching
\* 04_prompt_caching.py lines 24-69: with use_caching the prefix and the
\* document each carry a cache_control marker; without it the content is one
\* plain text
time_response_body(query, use_caching) ==
    [anthropic_version |-> "bedrock-2023-05-31",
     max_tokens |-> 4096,
     content |-> IF use_caching
                 THEN << [type |-> "text", text |-> "prefix",
                          cache_control |-> [type |-> "ephemeral"]],
                         [type |-> "text", text |-> "document",
                          cache_control |-> [type |-> "ephemeral"]],
                         [type |-> "text", text |-> query] >>
                 ELSE << [type |-> "text", text |-> query] >>]

\* lines 103-154: the first body of test_basic_caching is plain, the second
\* and third mark cached_content
test_basic_caching_body(structured) ==
    [anthropic_version |-> "bedrock-2023-05-31",
     max_tokens |-> 1024,
     content |-> IF structured
                 THEN << [type |-> "text", text |-> "cached_content",
                          cache_control |-> [type |-> "ephemeral"]],
                         [type |-> "text", text |-> "Tell me about the text."] >>
                 ELSE << [type |-> "text", text |-> "What does the text say?"] >>]

\* the calls of a demonstration are numbered: 0 is the API test, 1..5 are
\* the timed queries, 6..8 the calls of test_basic_caching
LastQuery == 5
LastCall == 8
\* lines 247, 255, 264, 277, 293: the third query is asked twice
DemoQuery(n) == queries[IF n <= 3 THEN n ELSE n - 1]
\* calls 3..5 and 7..8 are made inside a try block
InTry(n) == n \in {3, 4, 5, 7, 8}

\* lines 214-232: the API test goes through the optimized client
demonstrate_prompt_caching_preflight ==
    /\ pc = "dpc_start"
    /\ Send(CallEntry(0, 0, 1))
    /\ pc' = "dpc_call"
    /\ UNCHANGED <<prog, exc, client, now, harnessVars, wrapVars, extVars>>
    /\ UNCHANGED agentVars

\* lines 233-247
demonstrate_prompt_caching_preflight_ok ==
    /\ pc = "dpc_call"
    /\ Delivered
    /\ reply[1].outcome = "ok"
    /\ step' = 1
    /\ body' = time_response_body(DemoQuery(1), FALSE)
    /\ pc' = "tr_start"
    /\ Consume
    /\ UNCHANGED <<prog, exc, client, now, harnessVars>>
    /\ UNCHANGED <<prompt, num_runs, i, times, usages, llm_response, start_time, ret>>
    /\ UNCHANGED <<args, llm, result, run_no>>
    /\ UNCHANGED agentVars

\* the handler of lines 234-237 without its return: the run goes on to the
\* first timed query
demonstrate_prompt_caching_preflight_failed_no_return ==
    /\ pc = "dpc_call"
    /\ Delivered
    /\ reply[1].outcome # "ok"
    /\ step' = 1
    /\ body' = time_response_body(DemoQuery(1), FALSE)
    /\ pc' = "tr_start"
    /\ Consume
    /\ UNCHANGED <<prog, exc, client, now, harnessVars>>
    /\ UNCHANGED <<prompt, num_runs, i, times, usages, llm_response, start_time, ret>>
    /\ UNCHANGED <<args, llm, result, run_no>>
    /\ UNCHANGED agentVars

\* lines 234-237: the failure is printed and the function returns
demonstrate_prompt_caching_preflight_failed ==
    /\ pc = "dpc_call"
    /\ Delivered
    /\ reply[1].outcome # "ok"
    /\ pc' = "done"
    /\ Consume
    /\ UNCHANGED <<prog, exc, client, now, harnessVars, wrapVars, extVars>>
    /\ UNCHANGED agentVars

\* lines 71-78: the clock is read, a client is built, the body is serialized
\* and the call is made through the new client
time_response_invoke ==
    /\ pc = "tr_start"
    /\ start_time' = now
    /\ \E h \in Overheads : now' = now + h
    /\ Send(CallEntry(IF step >= 3 THEN 1 ELSE 0, step, 1))
    /\ pc' = "tr_call"
    /\ UNCHANGED <<prog, exc, client, harnessVars, extVars>>
    /\ UNCHANGED <<prompt, body, num_runs, i, times, usages, llm_response, ret>>
    /\ UNCHANGED agentVars

\* lines 79-89: the clock is read, then the body is parsed
time_response_return ==
    /\ pc = "tr_call"
    /\ Delivered
    /\ reply[1].outcome = "ok"
    /\ reply[1].shape \in {"text", "nocontent"}
    /\ result' = <<[time |-> now - start_time,
                    text |-> IF reply[1].shape = "text" THEN "text" ELSE "No content",
                    usage |-> reply[1].usage]>>
    /\ pc' = IF step = 3 THEN "dpc_sleep" ELSE "dpc_next"
    /\ Consume
    /\ UNCHANGED <<prog, exc, client, now, harnessVars, wrapVars>>
    /\ UNCHANGED <<args, llm, step, run_no>>
    /\ UNCHANGED agentVars

\* the call, json.loads (line 81) or the indexing of line 82 raises: calls
\* 1 and 2 are outside the try block of lines 261-324, calls 3 to 5 inside it
time_response_raise ==
    /\ pc = "tr_call"
    /\ Delivered
    /\ reply[1].outcome # "ok" \/ reply[1].shape \in {"malformed", "notext"}
    /\ IF InTry(step)
       THEN /\ step' = LastQuery + 1
            /\ body' = test_basic_caching_body(FALSE)
            /\ pc' = "tbc_start"
            /\ exc' = exc
       ELSE /\ step' = step
            /\ body' = body
            /\ pc' = "raised"
            /\ exc' = IF reply[1].outcome # "ok" THEN reply[1].outcome
                      ELSE IF reply[1].shape = "malformed" THEN "JSONDecodeError"
                      ELSE "KeyError"
    /\ Consume
    /\ UNCHANGED <<prog, client, now, harnessVars>>
    /\ UNCHANGED <<prompt, num_runs, i, times, usages, llm_response, start_time, ret>>
    /\ UNCHANGED <<args, llm, result, run_no>>
    /\ UNCHANGED agentVars

\* line 273: time.sleep(2) after the third query
demonstrate_prompt_caching_sleep ==
    /\ pc = "dpc_sleep"
    /\ Sleep(2)
    /\ pc' = "dpc_next"
    /\ UNCHANGED <<prog, exc, client, harnessVars, wrapVars, extVars>>
    /\ UNCHANGED agentVars

\* lines 250-327: on to the next query, or to test_basic_caching
demonstrate_prompt_caching_next ==
    /\ pc = "dpc_next"
    /\ step' = step + 1
    /\ IF step < LastQuery
       THEN /\ body' = time_response_body(DemoQuery(step + 1), step + 1 >= 3)
            /\ pc' = "tr_start"
       ELSE /\ body' = test_basic_caching_body(FALSE)
            /\ pc' = "tbc_start"
    /\ UNCHANGED <<prog, exc, client, now, harnessVars, netVars>>
    /\ UNCHANGED <<prompt, num_runs, i, times, usages, llm_response, start_time, ret>>
    /\ UNCHANGED <<args, llm, result, run_no>>
    /\ UNCHANGED agentVars

\* lines 114-120, 155-162, 179-185: the clock is read, the body is
\* serialized and the call is made through the client that was passed in
test_basic_caching_invoke ==
    /\ pc = "tbc_start"
    /\ start_time' = now
    /\ \E h \in Overheads : now' = now + h
    /\ Send(CallEntry(IF step > LastQuery + 1 THEN 1 ELSE 0, step, 1))
    /\ pc' = "tbc_call"
    /\ UNCHANGED <<prog, exc, client, harnessVars, extVars>>
    /\ UNCHANGED <<prompt, body, num_runs, i, times, usages, llm_response, ret>>
    /\ UNCHANGED agentVars

\* lines 121-127, 163-168, 186-199: the clock is read, the body is parsed;
\* after the third call test_basic_caching returns and the conclusions of
\* lines 329-335 are printed
test_basic_caching_return ==
    /\ pc = "tbc_call"
    /\ Delivered
    /\ reply[1].outcome = "ok"
    /\ reply[1].shape # "malformed"
    /\ result' = <<[time |-> now - start_time, usage |-> reply[1].usage]>>
    /\ IF step = LastCall
       THEN /\ pc' = "done"
            /\ step' = step
            /\ body' = body
       ELSE /\ pc' = IF step = LastCall - 1 THEN "tbc_sleep" ELSE "tbc_start"
            /\ step' = step + 1
            /\ body' = test_basic_caching_body(TRUE)
    /\ Consume
    /\ UNCHANGED <<prog, exc, client, now, harnessVars>>
    /\ UNCHANGED <<prompt, num_runs, i, times, usages, llm_response, start_time, ret>>
    /\ UNCHANGED <<args, llm, run_no>>
    /\ UNCHANGED agentVars

\* line 174: time.sleep(2) before the third call
test_basic_caching_sleep ==
    /\ pc = "tbc_sleep"
    /\ Sleep(2)
    /\ pc' = "tbc_start"
    /\ UNCHANGED <<prog, exc, client, harnessVars, wrapVars, extVars>>
    /\ UNCHANGED agentVars

\* the call or json.loads raises: the first call is outside the try block of
\* lines 156-203 and nothing in demonstrate_prompt_caching catches around
\* line 327; the second and third are inside it
test_basic_caching_raise ==
    /\ pc = "tbc_call"
    /\ Delivered
    /\ reply[1].outcome # "ok" \/ reply[1].shape = "malformed"
    /\ IF InTry(step)
       THEN /\ pc' = "done"
            /\ exc' = exc
       ELSE /\ pc' = "raised"
            /\ exc' = IF reply[1].outcome # "ok" THEN reply[1].outcome
                      ELSE "JSONDecodeError"
    /\ Consume
    /\ UNCHANGED <<prog, client, now, harnessVars, wrapVars, extVars>>
    /\ UNCHANGED agentVars

\* ------------------------------------------------------------ the agents
\* 05_agent_optimization.py lines 103-142: no early_stopping_method is
\* passed, so the executor's default applies
complex_agent_executor ==
    [name |-> "complex", index |-> 1, time_name |-> "complex_time",
     agent |-> "ZERO_SHOT_REACT_DESCRIPTION",
     max_iterations |-> 10,
     early_stopping_method |-> "force",
     handle_parsing_errors |-> TRUE]

\* 05_agent_optimization.py lines 145-160
optimized_agent_executor ==
    [name |-> "optimized", index |-> 2, time_name |-> "optimized_time",
     agent |-> "ZERO_SHOT_REACT_DESCRIPTION",
     max_iterations |-> 3,
     early_stopping_method |-> "generate",
     handle_parsing_errors |-> TRUE]

\* 06_combined_approach.py lines 69-76: no handle_parsing_errors is passed
agent_executor ==
    [name |-> "agent", index |-> 3, time_name |-> "agent_time",
     agent |-> "create_react_agent",
     max_iterations |-> 3,
     early_stopping_method |-> "generate",
     handle_parsing_errors |-> FALSE]

AgentPrograms == {"compare_agent_implementations", "demonstrate_combined_approach"}

\* what the evaluation of a model-written expression by eval() can end in
\* (05_agent_optimization.py line 46, 06_combined_approach.py line 24): a
\* value or an Exception, both turned into a returned string by the
\* surrounding try / except Exception; an exception that is no Exception,
\* such as the SystemExit of exit(); or no end at all
ToolOutcomes == {"returned", "SystemExit", "never_returns"}

\* where control goes when the running executor's invoke returns (e = "")
\* or raises e
AfterInvoke(e) ==
    IF prog = "compare_agent_implementations"
    THEN \* lines 170-178 and 184-192: try / except Exception around the
         \* invocation, the elapsed time bound on either path
         IF e = "SystemExit"
         THEN /\ pc' = "raised"
              /\ exc' = e
              /\ locals' = locals
         ELSE /\ pc' = IF executor.name = "complex" THEN "cai_optimized"
                       ELSE "cai_print"
              /\ exc' = exc
              /\ locals' = Put(locals, executor.time_name, now - start_time)
    ELSE \* 06_combined_approach.py lines 130-132: no handler
         IF e # ""
         THEN /\ pc' = "raised"
              /\ exc' = e
              /\ locals' = locals
         ELSE /\ pc' = "qdc_start"
              /\ exc' = exc
              /\ locals' = Put(locals, executor.time_name, now - start_time)

\* lines 169-171: the clock is read and the complex agent is invoked
compare_agent_implementations_invoke_complex ==
    /\ pc = "cai_complex"
    /\ start_time' = now
    /\ executor' = complex_agent_executor
    /\ invoked' = Append(invoked, "complex")
    /\ iterations' = 0
    /\ tool_calls' = 0
    /\ pc' = "ae_loop"
    /\ UNCHANGED <<prog, exc, client, now, harnessVars, netVars, extVars>>
    /\ UNCHANGED <<prompt, body, num_runs, i, times, usages, llm_response, ret>>
    /\ UNCHANGED locals

\* lines 183-185: the clock is read and the optimized agent is invoked
compare_agent_implementations_invoke_optimized ==
    /\ pc = "cai_optimized"
    /\ start_time' = now
    /\ executor' = optimized_agent_executor
    /\ invoked' = Append(invoked, "optimized")
    /\ iterations' = 0
    /\ tool_calls' = 0
    /\ pc' = "ae_loop"
    /\ UNCHANGED <<prog, exc, client, now, harnessVars, netVars, extVars>>
    /\ UNCHANGED <<prompt, body, num_runs, i, times, usages, llm_response, ret>>
    /\ UNCHANGED locals

\* lines 194-209: the comparison is printed when both timings are bound
compare_agent_implementations_print ==
    /\ pc = "cai_print"
    /\ pc' = "done"
    /\ UNCHANGED <<prog, exc, client, now, harnessVars, wrapVars, netVars, extVars>>
    /\ UNCHANGED agentVars

\* 06_combined_approach.py lines 63-76: the agent and its executor are
\* built; create_react_agent may reject a prompt without the variables it
\* requires
demonstrate_combined_approach_create ==
    /\ pc = "dca_start"
    /\ \/ /\ pc' = "dca_invoke"
          /\ exc' = exc
       \/ /\ pc' = "raised"
          /\ exc' = "ValueError"
    /\ UNCHANGED <<prog, client, now, harnessVars, wrapVars, netVars, extVars>>
    /\ UNCHANGED agentVars

\* 06_combined_approach.py lines 130-131
demonstrate_combined_approach_invoke ==
    /\ pc = "dca_invoke"
    /\ start_time' = now
    /\ executor' = agent_executor
    /\ invoked' = Append(invoked, "agent")
    /\ iterations' = 0
    /\ tool_calls' = 0
    /\ pc' = "ae_loop"
    /\ UNCHANGED <<prog, exc, client, now, harnessVars, netVars, extVars>>
    /\ UNCHANGED <<prompt, body, num_runs, i, times, usages, llm_response, ret>>
    /\ UNCHANGED locals

\* the loop the executors run: while fewer than max_iterations steps have
\* been taken the agent is asked for its next step, which is one invocation
\* of the LLM
agent_executor_plan ==
    /\ pc = "ae_loop"
    /\ iterations < executor.max_iterations
    /\ Send(CallEntry(executor.index, iterations + 1, 1))
    /\ pc' = "ae_call"
    /\ UNCHANGED <<prog, exc, client, now, harnessVars, wrapVars, extVars>>
    /\ UNCHANGED agentVars

\* the model has answered with a final answer: invoke returns
agent_executor_finish ==
    /\ pc = "ae_call"
    /\ Delivered
    /\ reply[1].outcome = "ok"
    /\ reply[1].shape = "final"
    /\ AfterInvoke("")
    /\ Consume
    /\ UNCHANGED <<prog, client, now, harnessVars, wrapVars, extVars>>
    /\ UNCHANGED <<executor, iterations, tool_calls, invoked>>

\* the model has asked for a tool
agent_executor_act ==
    /\ pc = "ae_call"
    /\ Delivered
    /\ reply[1].outcome = "ok"
    /\ reply[1].shape = "action"
    /\ pc' = "ae_tool"
    /\ Consume
    /\ UNCHANGED <<prog, exc, client, now, harnessVars, wrapVars, extVars>>
    /\ UNCHANGED agentVars

\* the model has named a tool that does not exist, or its answer cannot be
\* parsed and handle_parsing_errors is set: the error is the observation of
\* this step and no tool function is called
agent_executor_observe_error ==
    /\ pc = "ae_call"
    /\ Delivered
    /\ reply[1].outcome = "ok"
    /\ \/ reply[1].shape = "unknown_tool"
       \/ reply[1].shape = "unparseable" /\ executor.handle_parsing_errors
    /\ iterations' = iterations + 1
    /\ pc' = "ae_loop"
    /\ Consume
    /\ UNCHANGED <<prog, exc, client, now, harnessVars, wrapVars, extVars>>
    /\ UNCHANGED <<executor, tool_calls, invoked, locals>>

\* the invocation of the LLM has failed, or its answer cannot be parsed and
\* handle_parsing_errors is not set: invoke raises
agent_executor_raise ==
    /\ pc \in {"ae_call", "ae_stop_call"}
    /\ Delivered
    /\ \/ reply[1].outcome # "ok"
       \/ /\ pc = "ae_call"
          /\ reply[1].shape = "unparseable"
          /\ ~executor.handle_parsing_errors
    /\ AfterInvoke(IF reply[1].outcome # "ok" THEN reply[1].outcome
                   ELSE "ValueError")
    /\ Consume
    /\ UNCHANGED <<prog, client, now, harnessVars, wrapVars, extVars>>
    /\ UNCHANGED <<executor, iterations, tool_calls, invoked>>

\* enhanced_calculator (05_agent_optimization.py lines 20-77) and
\* simple_calculator (06_combined_approach.py lines 21-26) are called with
\* the expression the model wrote; query_document (lines 29-32) always
\* returns
calculator_run ==
    /\ pc = "ae_tool"
    /\ tool_calls' = tool_calls + 1
    /\ \E outcome \in ToolOutcomes :
         IF outcome = "returned"
         THEN /\ iterations' = iterations + 1
              /\ pc' = "ae_loop"
              /\ exc' = exc
              /\ locals' = locals
         ELSE IF outcome = "SystemExit"
         THEN /\ iterations' = iterations
              /\ AfterInvoke("SystemExit")
         ELSE /\ iterations' = iterations
              /\ pc' = "eval"
              /\ exc' = exc
              /\ locals' = locals
    /\ UNCHANGED <<prog, client, now, harnessVars, wrapVars, netVars, extVars>>
    /\ UNCHANGED <<executor, invoked>>

\* max_iterations steps have been taken: with early_stopping_method "force"
\* invoke returns a fixed answer; with "generate" an agent built by
\* initialize_agent invokes the LLM once more for a final answer, and one
\* built by create_react_agent raises ValueError
agent_executor_stop ==
    /\ pc = "ae_loop"
    /\ iterations >= executor.max_iterations
    /\ IF executor.early_stopping_method = "force"
       THEN /\ AfterInvoke("")
            /\ UNCHANGED netVars
       ELSE IF executor.agent = "ZERO_SHOT_REACT_DESCRIPTION"
       THEN /\ Send(CallEntry(executor.index, iterations + 1, 1))
            /\ pc' = "ae_stop_call"
            /\ exc' = exc
            /\ locals' = locals
       ELSE /\ AfterInvoke("ValueError")
            /\ UNCHANGED netVars
    /\ UNCHANGED <<prog, client, now, harnessVars, wrapVars, extVars>>
    /\ UNCHANGED <<executor, iterations, tool_calls, invoked>>

\* the answer to the final invocation is returned whatever it is
agent_executor_stop_return ==
    /\ pc = "ae_stop_call"
    /\ Delivered
    /\ reply[1].outcome = "ok"
    /\ AfterInvoke("")
    /\ Consume
    /\ UNCHANGED <<prog, client, now, harnessVars, wrapVars, extVars>>
    /\ UNCHANGED <<executor, iterations, tool_calls, invoked>>

\* 06_combined_approach.py lines 83-105: the document carries a
\* cache_control marker, the query does not
query_with_document_context_body(query) ==
    [anthropic_version |-> "bedrock-2023-05-31",
     max_tokens |-> 1024,
     content |-> << [type |-> "text", text |-> "document",
                     cache_control |-> [type |-> "ephemeral"]],
                    [type |-> "text", text |-> query] >>]

\* 06_combined_approach.py lines 107-113, called at lines 138 and 145
query_with_document_context_invoke ==
    /\ pc = "qdc_start"
    /\ body' = query_with_document_context_body(queries[step + 1])
    /\ start_time' = now
    /\ step' = step + 1
    /\ log' = Append(log, [CallEntry(0, step + 1, 1) EXCEPT
                              !.cached = CachedSegments(body')])
    /\ inflight' = inflight + 1
    /\ requests' = requests + 1
    /\ attempts' = 1
    /\ reply' = << >>
    /\ pc' = "qdc_call"
    /\ UNCHANGED <<prog, exc, client, now, harnessVars>>
    /\ UNCHANGED <<prompt, num_runs, i, times, usages, llm_response, ret>>
    /\ UNCHANGED <<args, llm, result, run_no>>
    /\ UNCHANGED agentVars

\* lines 114-123; after the second query the improvement of line 158 is
\* computed and printed
query_with_document_context_return ==
    /\ pc = "qdc_call"
    /\ Delivered
    /\ reply[1].outcome = "ok"
    /\ reply[1].shape \in {"text", "nocontent"}
    /\ result' = <<[time |-> now - start_time,
                    text |-> IF reply[1].shape = "text" THEN "text" ELSE "No content",
                    usage |-> reply[1].usage]>>
    /\ IF step = 1
       THEN /\ locals' = Put(locals, "doc_result1", now - start_time)
            /\ pc' = "qdc_start"
            /\ exc' = exc
       ELSE /\ locals' = Put(locals, "doc_result2", now - start_time)
            /\ IF locals["doc_result1"] = 0
               THEN pc' = "raised" /\ exc' = "ZeroDivisionError"
               ELSE pc' = "done" /\ exc' = exc
    /\ Consume
    /\ UNCHANGED <<prog, client, now, harnessVars, wrapVars>>
    /\ UNCHANGED <<args, llm, step, run_no>>
    /\ UNCHANGED <<executor, iterations, tool_calls, invoked>>

\* the call, json.loads (line 116) or the indexing of line 117 raises, and
\* nothing catches it
query_with_document_context_raise ==
    /\ pc = "qdc_call"
    /\ Delivered
    /\ reply[1].outcome # "ok" \/ reply[1].shape \in {"malformed", "notext"}
    /\ pc' = "raised"
    /\ exc' = IF reply[1].outcome # "ok" THEN reply[1].outcome
              ELSE IF reply[1].shape = "malformed" THEN "JSONDecodeError"
              ELSE "KeyError"
    /\ Consume
    /\ UNCHANGED <<prog, client, now, harnessVars, wrapVars, extVars>>
    /\ UNCHANGED agentVars

\* --------------------------------------------------------- specification
RECURSIVE SeqsUpTo(_, _)
SeqsUpTo(S, n) ==
    IF n = 0 THEN {<< >>}
    ELSE LET shorter == SeqsUpTo(S, n - 1)
         IN shorter \cup {Append(s, x) : s \in {t \in shorter : Len(t) = n - 1}, x \in S}

InitTimeLlmResponse ==
    /\ prog = "time_llm_response"
    /\ pc = "tlr_loop"
    /\ client \in Clients
    /\ llms = << >> /\ prompts = << >> /\ queries = << >>
    /\ runs_per_query = 0
    /\ results = << >>
    /\ prompt = "a"
    /\ body = << >>
    /\ num_runs \in 0..MaxRuns
    /\ args = << >>

InitTimeDirectInvoke ==
    /\ prog = "time_direct_invoke"
    /\ pc = "tdi_loop"
    /\ client \in Clients
    /\ llms = << >> /\ prompts = << >> /\ queries = << >>
    /\ runs_per_query = 0
    /\ results = << >>
    /\ prompt = ""
    /\ body \in {create_body("q1", c) : c \in BOOLEAN}
    /\ num_runs \in 0..MaxRuns
    /\ args = << >>

InitCompareLlms ==
    /\ prog = "compare_llms"
    /\ pc = "cl_llm"
    /\ client \in Clients
    /\ \E n \in 0..MaxLlms : llms = SubSeq(LlmNames, 1, n)
    /\ prompts \in SeqsUpTo(PromptValues, MaxPrompts)
    /\ Len(llms) * Len(prompts) <= MaxPairs
    /\ queries = << >>
    /\ runs_per_query = 0
    /\ results = << >>
    /\ prompt = ""
    /\ body = << >>
    /\ num_runs = 0
    /\ args = << >>

InitBenchmarkPromptCaching ==
    /\ prog = "benchmark_prompt_caching"
    /\ pc = "bpc_loop"
    /\ client = create_optimized_client(DEFAULT_TIMEOUT)
    /\ llms = << >> /\ prompts = << >>
    /\ \E n \in 0..MaxQueries : queries = SubSeq(QueryTexts, 1, n)
    /\ runs_per_query = 0
    /\ results = << >>
    /\ prompt = ""
    /\ body = << >>
    /\ num_runs = 0
    /\ args = << >>

InitCompareMultipleQueries ==
    /\ prog = "compare_multiple_queries"
    /\ pc = "cmq_loop"
    /\ client \in Clients
    /\ llms = << >> /\ prompts = << >>
    /\ \E n \in 0..MaxQueries : queries = SubSeq(QueryTexts, 1, n)
    /\ runs_per_query \in 0..MaxRuns
    /\ 2 * Len(queries) <= MaxPairs
    /\ results = [unstructured |-> << >>, structured |-> << >>]
    /\ prompt = ""
    /\ body = << >>
    /\ num_runs = 0
    /\ args = << >>

InitCreateClaudeLlm ==
    /\ prog = "create_claude_llm"
    /\ pc = "ccl_start"
    /\ client = create_optimized_client(DEFAULT_TIMEOUT)
    /\ llms = << >> /\ prompts = << >> /\ queries = << >>
    /\ runs_per_query = 0
    /\ results = << >>
    /\ prompt = ""
    /\ body = << >>
    /\ num_runs = 0
    /\ args \in ArgumentValues

InitInvokeWithTimeout ==
    /\ prog = "invoke_with_timeout"
    /\ pc = "iwt_start"
    /\ client \in TimeoutClients
    /\ llms = << >> /\ prompts = << >> /\ queries = << >>
    /\ runs_per_query = 0
    /\ results = << >>
    /\ prompt = "a"
    /\ body = << >>
    /\ num_runs = 0
    /\ args \in [thinking_budget : TimeoutBudgets]

InitDemonstratePromptCaching ==
    /\ prog = "demonstrate_prompt_caching"
    /\ pc = "dpc_start"
    /\ client = create_optimized_client(DEFAULT_TIMEOUT)
    /\ llms = << >> /\ prompts = << >>
    /\ queries = QueryTexts
    /\ runs_per_query = 0
    /\ results = << >>
    /\ prompt = ""
    /\ body = << >>
    /\ num_runs = 0
    /\ args = << >>

InitCompareAgentImplementations ==
    /\ prog = "compare_agent_implementations"
    /\ pc = "cai_complex"
    /\ client = create_optimized_client(DEFAULT_TIMEOUT)
    /\ llms = << >> /\ prompts = << >> /\ queries = << >>
    /\ runs_per_query = 0
    /\ results = << >>
    /\ prompt = ""
    /\ body = << >>
    /\ num_runs = 0
    /\ args = << >>

InitDemonstrateCombinedApproach ==
    /\ prog = "demonstrate_combined_approach"
    /\ pc = "dca_start"
    /\ client = create_optimized_client(DEFAULT_TIMEOUT)
    /\ llms = << >> /\ prompts = << >>
    /\ queries = SubSeq(QueryTexts, 1, 2)
    /\ runs_per_query = 0
    /\ results = << >>
    /\ prompt = ""
    /\ body = << >>
    /\ num_runs = 0
    /\ args = << >>

Init ==
    /\ \/ InitTimeLlmResponse
       \/ InitTimeDirectInvoke
       \/ InitCompareLlms
       \/ InitBenchmarkPromptCaching
       \/ InitCompareMultipleQueries
       \/ InitCreateClaudeLlm
       \/ InitInvokeWithTimeout
       \/ InitDemonstratePromptCaching
       \/ InitCompareAgentImplementations
       \/ InitDemonstrateCombinedApproach
    /\ exc = ""
    /\ now = 0
    /\ llm_idx = 0
    /\ prompt_idx = 0
    /\ phase = 1
    /\ q_idx = 0
    /\ unstructured_results = << >>
    /\ i = 0
    /\ times = << >>
    /\ usages = << >>
    /\ llm_response = 0
    /\ start_time = 0
    /\ ret = << >>
    /\ inflight = 0
    /\ attempts = 0
    /\ reply = << >>
    /\ requests = 0
    /\ log = << >>
    /\ llm = << >>
    /\ result = << >>
    /\ step = 0
    /\ run_no = 1
    /\ executor = << >>
    /\ iterations = 0
    /\ tool_calls = 0
    /\ invoked = << >>
    /\ locals = << >>

Next ==
    \/ EndpointRespond
    \/ ClientRetry
    \/ time_llm_response_invoke
    \/ time_llm_response_record
    \/ time_llm_response_raise
    \/ time_llm_response_return
    \/ time_direct_invoke_invoke
    \/ time_direct_invoke_record
    \/ time_direct_invoke_raise
    \/ time_direct_invoke_return
    \/ time_unstructured_query_sleep
    \/ time_unstructured_query_invoke
    \/ time_unstructured_query_record
    \/ time_unstructured_query_raise
    \/ time_unstructured_query_return
    \/ time_structured_query_sleep
    \/ time_structured_query_invoke
    \/ time_structured_query_record
    \/ time_structured_query_raise
    \/ time_structured_query_return
    \/ compare_llms_next_llm
    \/ compare_llms_time
    \/ compare_llms_store
    \/ compare_llms_end_prompts
    \/ compare_llms_return
    \/ compare_llms_again
    \/ benchmark_prompt_caching_time
    \/ benchmark_prompt_caching_store
    \/ benchmark_prompt_caching_next_loop
    \/ compare_multiple_queries_unstructured
    \/ compare_multiple_queries_structured
    \/ compare_multiple_queries_store
    \/ compare_multiple_queries_return
    \/ create_claude_llm_build
    \/ invoke_with_timeout_invoke
    \/ invoke_with_timeout_return
    \/ invoke_with_timeout_except
    \/ demonstrate_prompt_caching_preflight
    \/ demonstrate_prompt_caching_preflight_ok
    \/ demonstrate_prompt_caching_preflight_failed
    \/ time_response_invoke
    \/ time_response_return
    \/ time_response_raise
    \/ demonstrate_prompt_caching_sleep
    \/ demonstrate_prompt_caching_next
    \/ test_basic_caching_invoke
    \/ test_basic_caching_return
    \/ test_basic_caching_sleep
    \/ test_basic_caching_raise
    \/ compare_agent_implementations_invoke_complex
    \/ compare_agent_implementations_invoke_optimized
    \/ compare_agent_implementations_print
    \/ demonstrate_combined_approach_create
    \/ demonstrate_combined_approach_invoke
    \/ agent_executor_plan
    \/ agent_executor_finish
    \/ agent_executor_act
    \/ agent_executor_observe_error
    \/ agent_executor_raise
    \/ calculator_run
    \/ agent_executor_stop
    \/ agent_executor_stop_return
    \/ query_with_document_context_invoke
    \/ query_with_document_context_return
    \/ query_with_document_context_raise

Spec == Init /\ [][Next]_vars

\* ------------------------------------------------------------ vocabulary
Terminated == pc \in {"done", "raised"}
Waiting ==
    pc \in {"tlr_call", "tdi_call", "tuq_call", "tsq_call", "iwt_call",
            "dpc_call", "tr_call", "tbc_call", "ae_call", "ae_stop_call",
            "qdc_call"}

\* the invocations of the (configuration, input) pair timed last
LastPairCalls ==
    IF Calls = << >> THEN << >>
    ELSE LET last == Calls[Len(Calls)]
             SamePair(e) == e.cfg = last.cfg /\ e.input = last.input
         IN SelectSeq(Calls, SamePair)

IsOk(e) == e.outcome = "ok"
IsFailed(e) == e.outcome \in Failures

RECURSIVE Durs(_)
Durs(s) == IF s = << >> THEN << >> ELSE <<Head(s).dur>> \o Durs(Tail(s))

RECURSIVE SumTo(_, _)
SumTo(s, n) == IF n = 0 THEN 0 ELSE s[n] + SumTo(s, n - 1)

RECURSIVE Entries(_, _)
Entries(table, names) ==
    IF names = {} THEN 0
    ELSE LET n == CHOOSE x \in names : TRUE
         IN Cardinality(DOMAIN table[n]) + Entries(table, names \ {n})

Range(s) == {s[k] : k \in DOMAIN s}
StandaloneWrapper == prog \in {"time_llm_response", "time_direct_invoke"}

\* ----------------------------------------------------------------- claims

\* C1 (as stated): in a comparison run a failed outbound call never aborts the
\* run: compare_llms goes on with the remaining pairs and returns its table.
C1_FailureNeverAborts ==
    prog = "compare_llms" =>
        /\ pc # "raised"
        /\ (Terminated => Len(Calls) = Len(llms) * Len(prompts))

\* C2: whenever a timing wrapper returns a result, all of its R >= 1 calls
\* succeeded and times holds exactly their R durations, in the order the calls
\* were made.
C2_TimesHoldEveryRun ==
    ret # << >> =>
        LET ts == ret[1].times
            cs == LastPairCalls
        IN /\ num_runs >= 1
           /\ Len(ts) = num_runs
           /\ Len(cs) = num_runs
           /\ \A k \in 1..num_runs :
                /\ cs[k].run = k
                /\ cs[k].outcome = "ok"
                /\ ts[k] = cs[k].dur

C2_Witness ==
    /\ ret # << >>
    /\ num_runs = 3
    /\ ret[1].times[1] > ret[1].times[2]
    /\ ret[1].times[2] < ret[1].times[3]

\* C3 (as stated): the table compare_llms returns has exactly the configuration
\* names as outer keys and holds N x M (configuration, input) entries.
C3_TableHasEveryPair ==
    (prog = "compare_llms" /\ pc = "done") =>
        /\ DOMAIN results = Range(llms)
        /\ Entries(results, DOMAIN results) = Len(llms) * Len(prompts)

\* C4 (as stated): when some of the R repeats of a pair fail and others
\* succeed, the wrapper still returns an aggregate with R results whose
\* statistics are those of the successful attempts.
C4_PartialFailureKeepsAggregate ==
    (StandaloneWrapper /\ ~Waiting
        /\ (\E k \in DOMAIN Calls : IsOk(Calls[k]))
        /\ (\E k \in DOMAIN Calls : IsFailed(Calls[k]))) =>
            /\ pc # "raised"
            /\ (Terminated =>
                  /\ ret # << >>
                  /\ Len(Calls) = num_runs
                  /\ ret[1].average_time = Average(Durs(SelectSeq(Calls, IsOk))))

C6_NoSuccessStillReturns ==
    (StandaloneWrapper /\ Terminated
        /\ \A k \in DOMAIN Calls : ~IsOk(Calls[k])) =>
            /\ pc = "done"
            /\ ret # << >>

\* C7 (as stated): when a failure stops the repeats after k < R attempts, the
\* caller still gets an aggregate, holding the k durations measured so far.
C7_TruncationIsRecorded ==
    (StandaloneWrapper /\ Terminated /\ Len(times) < num_runs) =>
        /\ ret # << >>
        /\ ret[1].times = times

\* C8 (as stated): k invocations produce exactly k outbound requests, whatever
\* their outcomes.
C8_OneRequestPerInvocation ==
    requests = Len(Calls)

C10_OneCallInFlight ==
    /\ inflight <= 1
    /\ \A k \in 1..(Len(Calls) - 1) : Calls[k].outcome # "pending"
    /\ (inflight = 1 => Waiting)

C10_Witness ==
    /\ prog = "compare_multiple_queries"
    /\ inflight = 1
    /\ pc = "tsq_call"
    /\ Len(Calls) >= 3

\* C11: whenever create_claude_llm is called with a thinking budget, the LLM
\* it builds has max_tokens strictly above the budget: the caller's value is
\* kept (and nothing is warned about) when it already exceeds the budget,
\* otherwise it becomes thinking_budget + 1024 and a warning is printed; the
\* call returns the LLM and raises nothing.
C11_MaxTokensExceedBudget ==
    (prog = "create_claude_llm" /\ args.thinking_budget # None) =>
        /\ pc # "raised"
        /\ pc = "done" => llm # << >>
        /\ llm # << >> =>
            LET budget == args.thinking_budget[1]
                built == llm[1]
                warned == \E k \in DOMAIN built.printed : built.printed[k] = "Warning"
            IN /\ built.max_tokens > budget
               /\ args.max_tokens > budget =>
                    built.max_tokens = args.max_tokens /\ ~warned
               /\ args.max_tokens <= budget =>
                    built.max_tokens = budget + 1024 /\ warned

\* get_optimal_llm has been built: its max_tokens of 1024 was raised to 3524;
\* and so has an LLM whose max_tokens equalled its budget
C11_Witness ==
    /\ prog = "create_claude_llm"
    /\ llm # << >>
    /\ \/ args = get_optimal_llm /\ llm[1].max_tokens = 3524
       \/ /\ args.thinking_budget = Some(BUDGET_MINIMAL)
          /\ args.max_tokens = BUDGET_MINIMAL
          /\ llm[1].max_tokens = 2048

\* C18: the LLM built by create_claude_llm has temperature 1 and a thinking
\* field whose budget_tokens is the thinking budget whenever a budget is
\* given; without a budget it has the caller's temperature and max_tokens and
\* no thinking field; and it has a prompt_caching field exactly when
\* enable_caching is set, with or without a budget.
C18_RequestFieldsFollowArguments ==
    (prog = "create_claude_llm" /\ llm # << >>) =>
        LET built == llm[1]
            fields == built.additional_model_request_fields
        IN /\ args.thinking_budget # None =>
                /\ built.temperature = 1
                /\ "thinking" \in DOMAIN fields
                /\ fields["thinking"] =
                       [type |-> "enabled", budget_tokens |-> args.thinking_budget[1]]
           /\ args.thinking_budget = None =>
                /\ built.temperature = args.temperature
                /\ built.max_tokens = args.max_tokens
                /\ "thinking" \notin DOMAIN fields
           /\ ("prompt_caching" \in DOMAIN fields) <=> args.enable_caching
           /\ args.enable_caching => fields["prompt_caching"] = [enabled |-> TRUE]

\* an LLM has been built with a thinking budget, prompt caching and a
\* caller's temperature other than 1
C18_Witness ==
    /\ prog = "create_claude_llm"
    /\ llm # << >>
    /\ args.thinking_budget # None
    /\ args.enable_caching
    /\ args.temperature = 2
    /\ llm[1].temperature = 1
    /\ DOMAIN llm[1].additional_model_request_fields = {"thinking", "prompt_caching"}

\* C12: invoke_with_timeout never lets a failure of its call (a timeout
\* included) escape: it ends by returning exactly one result, whose time is
\* the clock's advance since just before the call and covers the whole call;
\* a result of a failed call has success false, an error and no response, a
\* successful result has a response and no error.
C12_FailureBecomesResult ==
    prog = "invoke_with_timeout" =>
        /\ pc # "raised" /\ exc = ""
        /\ Len(result) <= 1
        /\ result # << >> => pc = "done"
        /\ pc = "done" =>
            /\ result # << >>
            /\ Len(Calls) = 1
            /\ result[1].time = now - start_time
            /\ result[1].time >= Calls[1].dur
            /\ Calls[1].outcome # "ok" => ~result[1].success
            /\ IF result[1].success
               THEN /\ DOMAIN result[1] = {"success", "time", "response"}
                    /\ Calls[1].outcome = "ok"
               ELSE DOMAIN result[1] = {"success", "time", "error"}

\* a call that timed out has been turned into a failed result
C12_Witness ==
    /\ prog = "invoke_with_timeout"
    /\ pc = "done"
    /\ Calls[1].outcome = "timeout"
    /\ ~result[1].success
    /\ result[1].error = "timeout"

\* C13: when a successful call hands invoke_with_timeout, time_direct_invoke
\* or time_response a body of an unexpected shape (unparseable, without a
\* content list, or with a first content block that has no text), the
\* function does not raise and, where it returns a result with a success
\* flag, that flag is false.
C13_UnexpectedShapeIsAFailure ==
    [][(/\ pc \in {"iwt_call", "tdi_call", "tr_call"}
        /\ Delivered
        /\ reply[1].outcome = "ok"
        /\ reply[1].shape \in {"malformed", "nocontent", "notext"}
        /\ reply' = << >>)
       => (/\ pc' # "raised"
           /\ pc = "iwt_call" => ~result'[1].success)]_vars

\* C14: in compare_multiple_queries with runs_per_query >= 1 the log of
\* calls and sleeps starts with a call, alternates call and sleep, and ends
\* with a call once the run is over; the sleep between two calls lasts 5
\* seconds between two runs of one query and test type, 10 between the two
\* test types of a query and 15 between two queries, whatever the calls
\* before it returned and however long they took.
C14_SleepsSeparateCalls ==
    (prog = "compare_multiple_queries" /\ runs_per_query >= 1) =>
        /\ log # << >> => IsCall(log[1])
        /\ \A k \in 1..(Len(log) - 1) : IsCall(log[k]) # IsCall(log[k + 1])
        /\ Terminated /\ log # << >> => IsCall(log[Len(log)])
        /\ \A k \in 2..(Len(log) - 1) :
             ~IsCall(log[k]) =>
                log[k].dur =
                    IF log[k - 1].input # log[k + 1].input THEN 15
                    ELSE IF log[k - 1].cfg # log[k + 1].cfg THEN 10
                    ELSE 5

\* a run has slept 5, 10 and 15 seconds, each time between two calls
C14_Witness ==
    /\ prog = "compare_multiple_queries"
    /\ runs_per_query >= 1
    /\ \A secs \in {5, 10, 15} :
         \E k \in 2..(Len(log) - 1) : ~IsCall(log[k]) /\ log[k].dur = secs
    /\ IsCall(log[Len(log)])

\* C15: a call of compare_llms never changes llms, prompts or the client the
\* adapters send through, and the table it builds, in a first call as in a
\* repeated one, has entries for the configurations of this call only, each
\* entry being the result of a call made by this run.
C15_RunsShareNothing ==
    /\ [](prog = "compare_llms" =>
            /\ DOMAIN results = {llms[k] : k \in 1..llm_idx}
            /\ \A k \in 1..llm_idx :
                 \A key \in DOMAIN results[llms[k]] :
                    \E c \in DOMAIN Calls :
                        /\ Calls[c].cfg = k
                        /\ prompt_name(Calls[c].input, prompts[Calls[c].input]) = key
                        /\ results[llms[k]][key].times = <<Calls[c].dur>>)
    /\ [][prog = "compare_llms" =>
            /\ llms' = llms
            /\ prompts' = prompts
            /\ client' = client]_vars

\* a repeated call of compare_llms has returned a table of its own
C15_Witness ==
    /\ prog = "compare_llms"
    /\ run_no = 2
    /\ pc = "done"
    /\ Len(llms) = 2
    /\ Len(Calls) >= 2
    /\ DOMAIN results = Range(llms)

\* C16: in demonstrate_prompt_caching, once the API test has succeeded, a
\* failure of one of the eight later calls never aborts the run, and the run
\* ends with test_basic_caching entered and the conclusions printed.
C16_LaterFailureDoesNotAbort ==
    (prog = "demonstrate_prompt_caching" /\ step >= 1) =>
        /\ pc # "raised"
        /\ Terminated => (pc = "done" /\ step > LastQuery)

\* C17: a recorded duration is the time the call itself took, from its issue
\* to its return as the endpoint's side saw it: nothing else the program
\* does (building a client, serializing, parsing, sleeping) falls between
\* the two clock readings.
C17_OnlyTheCallIsTimed ==
    /\ ret # << >> =>
         \A k \in DOMAIN ret[1].times :
            k <= Len(LastPairCalls) => ret[1].times[k] = LastPairCalls[k].dur
    /\ (result # << >> /\ pc \in {"done", "dpc_next", "dpc_sleep", "tbc_start", "tbc_sleep"}) =>
         result[1].time = Calls[Len(Calls)].dur

\* C19: benchmark_prompt_caching makes its calls in three passes over the
\* queries (uncached, first caching pass, second caching pass) and returns
\* 3 x Q rows in that order; no call of the first caching pass sends a
\* cacheable segment that an earlier call of the run sent with caching (it is
\* a cache write), and every call of the second caching pass sends cacheable
\* segments that were all sent with caching before (it is a cache read).
C19_WritesThenReads ==
    prog = "benchmark_prompt_caching" =>
        LET Q == Len(queries)
            SentBefore(k) == UNION {Calls[j].cached : j \in 1..(k - 1)}
        IN /\ \A k \in DOMAIN Calls :
                /\ Calls[k].cfg = ((k - 1) \div Q) + 1
                /\ Calls[k].input = ((k - 1) % Q) + 1
                /\ Calls[k].cfg = 1 => Calls[k].cached = {}
                /\ Calls[k].cfg = 2 =>
                      Calls[k].cached # {} /\ Calls[k].cached \cap SentBefore(k) = {}
                /\ Calls[k].cfg = 3 =>
                      Calls[k].cached # {} /\ Calls[k].cached \subseteq SentBefore(k)
           /\ pc = "done" =>
                /\ Len(results) = 3 * Q
                /\ \A k \in DOMAIN results :
                      /\ results[k].Caching = Caching[((k - 1) \div Q) + 1]
                      /\ results[k].Query = ((k - 1) % Q) + 1

\* C20: in the result of time_direct_invoke usages is never longer than
\* times, and usages[i] is the usage reported by the run whose duration is
\* times[i].
C20_UsagesAlignWithTimes ==
    (prog = "time_direct_invoke" /\ ret # << >>) =>
        /\ Len(ret[1].usages) <= Len(ret[1].times)
        /\ \A k \in DOMAIN ret[1].usages : ret[1].usages[k].call = k

\* C21: every timed call of demonstrate_prompt_caching (the five calls made
\* by time_response) goes out through the client the function built with
\* create_optimized_client and handed to time_response as bedrock_client, so
\* that client's read timeout is the one in force for the call.
C21_TimedCallsUseGivenClient ==
    prog = "demonstrate_prompt_caching" =>
        \A k \in DOMAIN Calls :
            Calls[k].input \in 1..LastQuery =>
                /\ Calls[k].via = client
                /\ Calls[k].via.read_timeout = client.read_timeout

\* C22: the body create_body builds without caching has no cache_control
\* field in any content segment; with caching exactly the document segment
\* carries cache_control of type ephemeral; the query segment never carries
\* one; and the two bodies of one query differ in nothing else.
C22_UncachedBodyHasNoCacheControl ==
    (prog = "benchmark_prompt_caching" /\ pc = "tdi_call") =>
        LET WithField(b) == {k \in DOMAIN b.content :
                                "cache_control" \in DOMAIN b.content[k]}
            Strip(b) == [b EXCEPT !.content =
                            [k \in DOMAIN b.content |->
                                [f \in DOMAIN b.content[k] \ {"cache_control"} |->
                                    b.content[k][f]]]]
            query == body.content[2].text
        IN /\ phase = 1 => WithField(body) = {}
           /\ phase > 1 =>
                /\ WithField(body) = {1}
                /\ body.content[1].cache_control = [type |-> "ephemeral"]
           /\ 2 \notin WithField(body)
           /\ Strip(create_body(query, TRUE)) = Strip(create_body(query, FALSE))

\* C29: in demonstrate_prompt_caching a failed API test is the only call of
\* the run: as long as the first call stands as failed no second call has
\* been issued, neither a timed query nor a call of test_basic_caching, and
\* when the failure has reached the function it has returned (it has not
\* raised) without entering either of them.
C29_FailedPreflightIsTheOnlyCall ==
    (prog = "demonstrate_prompt_caching" /\ Calls # << >> /\ IsFailed(Calls[1])) =>
        /\ Len(Calls) = 1
        /\ Calls[1].input = 0
        /\ step = 0
        /\ pc \in {"dpc_call", "done"}
        /\ pc = "done" => (inflight = 0 /\ reply = << >> /\ result = << >>)

\* the API test has failed and the function has returned
C29_Witness ==
    /\ prog = "demonstrate_prompt_caching"
    /\ pc = "done"
    /\ step = 0
    /\ Len(Calls) = 1
    /\ IsFailed(Calls[1])

\* C25: the three clients demonstrate_timeout_config uses, in order, have
\* read timeouts of 60, 120 and 180 seconds: whichever of them a call of
\* invoke_with_timeout goes through, its read timeout is the one of its
\* position.
C25_ReadTimeouts60_120_180 ==
    prog = "invoke_with_timeout" =>
        \A c \in DOMAIN Calls :
            \A k \in DOMAIN demonstrate_timeout_config_clients :
                Calls[c].via = demonstrate_timeout_config_clients[k] =>
                    Calls[c].via.read_timeout = <<60, 120, 180>>[k]

\* C26: whatever integer thinking_budget invoke_with_timeout is called with,
\* below 1024, zero and negative included, the request it sends carries
\* budget_tokens = max(1024, thinking_budget), which is at least 1024, and
\* max_tokens = budget_tokens + 1024.
C26_BudgetIsFloored ==
    (prog = "invoke_with_timeout" /\ Calls # << >>) =>
        LET budget_tokens == body.thinking.budget_tokens
        IN /\ budget_tokens >= 1024
           /\ budget_tokens >= args.thinking_budget
           /\ budget_tokens \in {1024, args.thinking_budget}
           /\ body.max_tokens = budget_tokens + 1024
           /\ body.thinking.type = "enabled"

\* a request has gone out for a negative budget, with the floor in its place
C26_Witness ==
    /\ prog = "invoke_with_timeout"
    /\ Calls # << >>
    /\ args.thinking_budget < 0
    /\ body.thinking.budget_tokens = 1024
    /\ body.max_tokens = 2048

\* C24: each thinking preset builds an LLM with thinking enabled, its own
\* budget (1024, 2500, 5000 and, for get_optimal_llm, 2500) as budget_tokens,
\* max_tokens = budget + 1024 and temperature 1; get_standard_llm and
\* get_cached_llm build one with max_tokens 1024, temperature 0 and no
\* thinking field; prompt_caching is enabled for get_cached_llm and
\* get_optimal_llm only, and is all that tells get_optimal_llm from
\* get_balanced_thinking_llm and get_cached_llm from get_standard_llm.
C24_PresetsYieldTheirSettings ==
    (prog = "create_claude_llm" /\ pc = "done" /\ args \in Presets) =>
        LET built == llm[1]
            fields == built.additional_model_request_fields
            Budget(a) ==
                IF a = get_fast_thinking_llm THEN BUDGET_MINIMAL
                ELSE IF a = get_deep_thinking_llm THEN BUDGET_DEEP
                ELSE BUDGET_BALANCED
            Settings(a) ==
                LET l == create_claude_llm(a.thinking_budget, a.temperature,
                                           a.max_tokens, a.enable_caching)
                    f == l.additional_model_request_fields
                IN [temperature |-> l.temperature,
                    max_tokens |-> l.max_tokens,
                    others |-> [k \in DOMAIN f \ {"prompt_caching"} |-> f[k]]]
        IN /\ args \in {get_fast_thinking_llm, get_balanced_thinking_llm,
                        get_deep_thinking_llm, get_optimal_llm} =>
                /\ built.max_tokens = Budget(args) + 1024
                /\ built.temperature = 1
                /\ "thinking" \in DOMAIN fields
                /\ fields["thinking"] =
                       [type |-> "enabled", budget_tokens |-> Budget(args)]
           /\ args \in {get_standard_llm, get_cached_llm} =>
                /\ built.max_tokens = 1024
                /\ built.temperature = 0
                /\ "thinking" \notin DOMAIN fields
           /\ ("prompt_caching" \in DOMAIN fields) <=>
                  (args \in {get_cached_llm, get_optimal_llm})
           /\ "prompt_caching" \in DOMAIN fields =>
                  fields["prompt_caching"] = [enabled |-> TRUE]
           /\ args = get_optimal_llm =>
                  Settings(args) = Settings(get_balanced_thinking_llm)
           /\ args = get_cached_llm =>
                  Settings(args) = Settings(get_standard_llm)

\* get_optimal_llm has built its LLM: max_tokens raised from the default
\* 1024 to 3524, thinking and prompt caching both set
C24_Witness ==
    /\ prog = "create_claude_llm"
    /\ pc = "done"
    /\ args = get_optimal_llm
    /\ llm[1].max_tokens = BUDGET_BALANCED + 1024
    /\ DOMAIN llm[1].additional_model_request_fields = {"thinking", "prompt_caching"}

\* C23: when compare_llms has returned for M plain-string inputs, the keys
\* under each configuration are exactly 'Prompt 1' .. 'Prompt M', so every
\* lookup results[config]['Prompt k'], k in 1..M, that
\* benchmark_reasoning_budgets and benchmark_combined_optimizations make in
\* the returned table finds an entry; the result of the k-th input is stored
\* under its name field when it is a record that has one and under
\* 'Prompt k' otherwise, and the text sent for it is the string itself, the
\* record's text field, or the empty string when the record has none.
C23_KeysFollowPositions ==
    prog = "compare_llms" =>
        LET M == Len(prompts)
            AllStrings == \A k \in 1..M : prompts[k].is_str
            Key(k) == IF ~prompts[k].is_str /\ prompts[k].name # NoKey
                      THEN prompts[k].name
                      ELSE "Prompt " \o ToString(k)
            Text(k) == IF prompts[k].is_str \/ prompts[k].text # NoKey
                       THEN prompts[k].text
                       ELSE ""
        IN /\ (pc = "done" /\ AllStrings) =>
                /\ DOMAIN results = Range(llms)
                /\ \A c \in DOMAIN results :
                      /\ DOMAIN results[c] = {"Prompt " \o ToString(k) : k \in 1..M}
                      /\ \A prompt_index \in 0..(M - 1) :
                            "Prompt " \o ToString(prompt_index + 1) \in DOMAIN results[c]
           /\ \A c \in 1..llm_idx :
                 LET stored == IF c < llm_idx THEN M
                               ELSE IF pc \in {"cl_prompt", "cl_llm", "done"} THEN prompt_idx
                               ELSE prompt_idx - 1
                 IN DOMAIN results[llms[c]] = {Key(k) : k \in 1..stored}
           /\ pc \in {"tlr_loop", "tlr_call", "cl_store"} => prompt = Text(prompt_idx)
           /\ \A c \in DOMAIN Calls : Calls[c].input \in 1..M

\* compare_llms has returned a table for two plain strings under two
\* configurations
C23_Witness ==
    /\ prog = "compare_llms"
    /\ pc = "done"
    /\ Len(llms) = 2
    /\ Len(prompts) = 2
    /\ \A k \in 1..2 : prompts[k].is_str
    /\ \A c \in 1..2 : DOMAIN results[llms[c]] = {"Prompt 1", "Prompt 2"}

\* C27: every agent run ends, whatever the model and the tools answer, and
\* has by then taken at most max_iterations steps and made at most that many
\* tool calls: 10 for the complex agent, 3 for the optimized agent of
\* compare_agent_implementations and for the agent of
\* demonstrate_combined_approach. A run that has not ended can always take
\* a further step.
C27_AgentRunsTerminate ==
    (prog \in AgentPrograms /\ invoked # << >>) =>
        /\ iterations <= executor.max_iterations
        /\ tool_calls <= executor.max_iterations
        /\ executor.max_iterations = IF executor.name = "complex" THEN 10 ELSE 3
        /\ Terminated \/ ENABLED Next

\* C28: in compare_agent_implementations the complex agent and then the
\* optimized agent are each invoked exactly once, whether or not the first
\* invocation fails: the function never ends before both have been invoked,
\* and complex_time and optimized_time are both bound when the comparison
\* is printed.
C28_BothAgentsInvokedAndTimed ==
    prog = "compare_agent_implementations" =>
        /\ invoked \in {<< >>, <<"complex">>, <<"complex", "optimized">>}
        /\ Terminated =>
              /\ pc = "done"
              /\ invoked = <<"complex", "optimized">>
        /\ pc \in {"cai_print", "done"} =>
              /\ {"complex_time", "optimized_time"} \subseteq DOMAIN locals
              /\ locals["complex_time"] >= 0
              /\ locals["optimized_time"] >= 0

====
